---- MODULE Spec2Model ----
(***************************************************************************)
(* Books ETL: the connection manager (db_utils.py), the Collector          *)
(* (extract_lambda.py) and the Reconciler (transform_lambda.py).           *)
(*                                                                         *)
(* One process hosts the db_utils module globals (connection_pool,         *)
(* secrets_cache).  Handlers run to completion one at a time, one stage    *)
(* (one function call of lambda_handler) per step.  Every call to an       *)
(* external service (secret store, database, object store, web site) takes *)
(* its outcome from an environment record chosen with \E.                  *)
(***************************************************************************)
EXTENDS Integers, Sequences, FiniteSets, TLC

VARIABLES
    connection_pool,   \* db_utils.connection_pool: [init, used]; init = FALSE is None
    secrets_cache,     \* db_utils.secrets_cache: secret name -> cached value or NoSecret
    DB_SECRET_NAME,    \* os.environ['DB_SECRET_NAME'] ("" when unset)
    last,              \* what the most recent db_utils call did and gave its caller
    clock,             \* datetime.utcnow() in whole seconds: [date, time]
    s3,                \* the bucket: key -> [exists, body, writer]
    staging_books,     \* the committed rows of table staging_books, in insert order
    run,               \* the lambda_handler invocation in progress (or just finished)
    batches            \* the batch_id generated by each Collector invocation so far

vars == <<connection_pool, secrets_cache, DB_SECRET_NAME, last, clock, s3,
          staging_books, run, batches>>

pipeVars == <<clock, s3, staging_books, run, batches>>

----------------------------------------------------------------------------
(* Bounds of the model *)

MaxClock == 1     \* clock ticks (a second, or the change of date) in a behaviour
MaxRuns == 2      \* Collector invocations
MaxBooks == 2     \* records in one scrape

(* Program constants *)

MaxConn == 2      \* DB_POOL_MAX_SIZE default

----------------------------------------------------------------------------
(* Errors: the exception's type name and what its message says *)

Err(t, m) == [type |-> t, msg |-> m]
NoErr == Err("", "")

SecretStoreError == Err("ClientError", "get_secret_value failed")
BinarySecretError == Err("ValueError", "Secret is in binary format, expected JSON string")
SecretNameUnsetError == Err("ValueError", "DB_SECRET_NAME environment variable not set")
MissingFieldsError == Err("ValueError", "Missing required fields in secret")
PoolCreateError == Err("OperationalError", "could not connect")
PoolExhaustedError == Err("PoolError", "connection pool exhausted")
GetConnError == Err("OperationalError", "getconn failed")
GetConnNoneError == Err("Exception", "Failed to get connection from pool (pool exhausted)")
ExecuteError == Err("DatabaseError", "execute failed")
FetchError == Err("ProgrammingError", "fetch failed")
CommitError == Err("OperationalError", "commit failed")
RollbackError == Err("InterfaceError", "rollback failed")
IndexError == Err("IndexError", "tuple index out of range")

----------------------------------------------------------------------------
(* The environment of one database-touching call *)

SecretNames == {"books-etl/rds/credentials", "other/secret"}
NoSecret == "absent"
\* what the secret store holds: full credentials, the same after a rotation,
\* or a JSON object that lacks a required field
SecretValues == {"creds", "rotated", "incomplete"}

\* result sets a query can return (SELECT 1 normally gives one row holding 1)
RowSets == { <<>>, << <<1>> >>, << <<0>> >>, << <<>> >> }

DbEnv(s, f, rb, pc, rows) ==
    [secret |-> s, fault |-> f, rollback_ok |-> rb, putconn_ok |-> pc, rows |-> rows]

\* secret: "error" (the store call raises), "binary" (no SecretString) or the value
\* fault: the first database call that raises, if any
DbEnvs ==
    {DbEnv(s, "none", TRUE, TRUE, << <<1>> >>) : s \in {"error", "binary"}}
    \cup {DbEnv(s, f, TRUE, TRUE, << <<1>> >>) :
            s \in SecretValues, f \in {"pool", "getconn", "getconn_none"}}
    \cup {DbEnv(s, f, rb, pc, << <<1>> >>) :
            s \in SecretValues, f \in {"execute", "fetch", "commit"},
            rb \in BOOLEAN, pc \in BOOLEAN}
    \cup {DbEnv(s, "none", TRUE, pc, rows) :
            s \in SecretValues, pc \in BOOLEAN, rows \in RowSets}

\* the environments of a handler's stages: the secret store answers or fails,
\* putconn does not fail
StageEnvs == {e \in DbEnvs : e.secret \in {"creds", "error"} /\ e.putconn_ok
                             /\ e.fault \in {"none", "getconn", "execute", "commit"}}

----------------------------------------------------------------------------
(* db_utils.py *)

NoPool == [init |-> FALSE, used |-> 0]

get_secret_nocache(cache, secret_name, env) ==
    IF env.secret = "error"
    THEN [ok |-> FALSE, error |-> SecretStoreError, value |-> NoSecret,
          cache |-> cache, queried |-> {secret_name}]
    ELSE IF env.secret = "binary"
    THEN [ok |-> FALSE, error |-> BinarySecretError, value |-> NoSecret,
          cache |-> cache, queried |-> {secret_name}]
    ELSE [ok |-> TRUE, error |-> NoErr, value |-> env.secret,
          cache |-> [cache EXCEPT ![secret_name] = env.secret],
          queried |-> {secret_name}]

get_secret(cache, secret_name, env) ==
    IF cache[secret_name] # NoSecret
    THEN [ok |-> TRUE, error |-> NoErr, value |-> cache[secret_name],
          cache |-> cache, queried |-> {}]
    ELSE get_secret_nocache(cache, secret_name, env)

\* init_connection_pool once get_secret has answered s: the required fields,
\* then SimpleConnectionPool(...)
create_pool(s, env) ==
    IF ~s.ok
    THEN [ok |-> FALSE, error |-> s.error, cache |-> s.cache, queried |-> s.queried]
    ELSE IF s.value = "incomplete"
    THEN [ok |-> FALSE, error |-> MissingFieldsError, cache |-> s.cache,
          queried |-> s.queried]
    ELSE IF env.fault = "pool"
    THEN [ok |-> FALSE, error |-> PoolCreateError, cache |-> s.cache,
          queried |-> s.queried]
    ELSE [ok |-> TRUE, error |-> NoErr, cache |-> s.cache, queried |-> s.queried]

init_connection_pool(cache, secret_name, env) ==
    IF secret_name = ""
    THEN [ok |-> FALSE, error |-> SecretNameUnsetError, cache |-> cache, queried |-> {}]
    ELSE create_pool(get_secret(cache, secret_name, env), env)

\* connection_pool.getconn() on the pool p; i is how the pool's initialisation
\* went, pool the pool before the call
getconn(pool, p, i, env) ==
    IF ~i.ok
    THEN [ok |-> FALSE, error |-> i.error, pool |-> pool, cache |-> i.cache,
          queried |-> i.queried]
    ELSE IF p.used >= MaxConn
    THEN [ok |-> FALSE, error |-> PoolExhaustedError, pool |-> p, cache |-> i.cache,
          queried |-> i.queried]
    ELSE IF env.fault = "getconn"
    THEN [ok |-> FALSE, error |-> GetConnError, pool |-> p, cache |-> i.cache,
          queried |-> i.queried]
    ELSE IF env.fault = "getconn_none"
    THEN [ok |-> FALSE, error |-> GetConnNoneError, pool |-> p, cache |-> i.cache,
          queried |-> i.queried]
    ELSE [ok |-> TRUE, error |-> NoErr, pool |-> [p EXCEPT !.used = @ + 1],
          cache |-> i.cache, queried |-> i.queried]

\* if connection_pool is None: connection_pool = init_connection_pool()
lazy_init(pool, i, env) == getconn(pool, [init |-> i.ok, used |-> 0], i, env)

get_db_connection(pool, cache, secret_name, env) ==
    IF pool.init
    THEN getconn(pool, pool,
                 [ok |-> TRUE, error |-> NoErr, cache |-> cache, queried |-> {}], env)
    ELSE lazy_init(pool, init_connection_pool(cache, secret_name, env), env)

\* putconn raising is caught and logged: the connection stays in the pool's used set
return_db_connection(pool, conn, env) ==
    IF pool.init /\ conn
    THEN IF env.putconn_ok THEN [pool EXCEPT !.used = @ - 1] ELSE pool
    ELSE pool

close_all_connections(pool) ==
    IF pool.init THEN NoPool ELSE pool

\* execute_query once get_db_connection has answered g.  try: execute, fetch,
\* commit; except: rollback, re-raise; finally: return the connection.  An exception
\* raised by conn.rollback() inside the except block replaces the one being handled.
run_query(g, env, fetch) ==
    LET conn == g.ok
        body_error == IF ~g.ok THEN g.error
                      ELSE IF env.fault = "execute" THEN ExecuteError
                      ELSE IF fetch /\ env.fault = "fetch" THEN FetchError
                      ELSE IF env.fault = "commit" THEN CommitError
                      ELSE NoErr
        failed == body_error # NoErr
        rollback == failed /\ conn
        rollback_raised == rollback /\ ~env.rollback_ok
        after == IF conn THEN return_db_connection(g.pool, conn, env) ELSE g.pool
    IN  [pool |-> after, cache |-> g.cache, queried |-> g.queried,
         raised |-> failed,
         error |-> IF rollback_raised THEN RollbackError ELSE body_error,
         first_error |-> body_error,
         value |-> IF failed THEN <<>> ELSE IF fetch THEN env.rows ELSE <<Len(env.rows)>>,
         fetched |-> IF ~failed /\ fetch THEN env.rows ELSE <<>>,
         rollback |-> rollback, rollback_raised |-> rollback_raised,
         acquired |-> conn, released |-> conn /\ after.used < g.pool.used,
         rows |-> <<>>, committed |-> conn /\ ~failed]

execute_query(pool, cache, secret_name, env, fetch) ==
    run_query(get_db_connection(pool, cache, secret_name, env), env, fetch)

\* result and result[0][0] == 1 on what execute_query("SELECT 1", fetch=True) gave
select_1(q) ==
    LET index_error == ~q.raised /\ q.value # <<>> /\ q.value[1] = <<>>
    IN  [q EXCEPT !.raised = q.raised \/ index_error,
                  !.error = IF index_error THEN IndexError ELSE q.error,
                  !.value = ~q.raised /\ q.value # <<>> /\ ~index_error
                            /\ q.value[1][1] = 1]

\* the body of test_connection without its except clause
test_connection_noexcept(pool, cache, secret_name, env) ==
    select_1(execute_query(pool, cache, secret_name, env, TRUE))

\* except Exception: return False
except_false(t) ==
    [t EXCEPT !.raised = FALSE, !.error = NoErr, !.value = ~t.raised /\ t.value]

test_connection(pool, cache, secret_name, env) ==
    except_false(test_connection_noexcept(pool, cache, secret_name, env))

----------------------------------------------------------------------------
(* What the last db_utils call did, as its caller and the pool saw it *)

NoCall ==
    [op |-> "none", name |-> "", raised |-> FALSE, error |-> NoErr, first_error |-> NoErr,
     value |-> <<>>, rollback |-> FALSE, rollback_raised |-> FALSE, queried |-> {},
     acquired |-> FALSE, released |-> FALSE, cached_before |-> NoSecret,
     fetched |-> <<>>, initialised |-> FALSE, committed |-> FALSE]

\* r: the record a database-touching function returns
Call(op, r) ==
    [NoCall EXCEPT !.op = op, !.raised = r.raised, !.error = r.error,
                   !.first_error = r.first_error, !.value = r.value,
                   !.rollback = r.rollback, !.rollback_raised = r.rollback_raised,
                   !.queried = r.queried, !.acquired = r.acquired,
                   !.released = r.released, !.fetched = r.fetched,
                   !.committed = r.committed,
                   !.initialised = r.pool.init /\ ~connection_pool.init]

Idle == run.pc \in {"idle", "done"}

ExecuteQuery ==
    /\ Idle
    /\ \E env \in DbEnvs, fetch \in BOOLEAN :
         LET r == execute_query(connection_pool, secrets_cache, DB_SECRET_NAME, env, fetch)
         IN  /\ connection_pool' = r.pool
             /\ secrets_cache' = r.cache
             /\ last' = Call("execute_query", r)
    /\ UNCHANGED <<DB_SECRET_NAME, pipeVars>>

TestConnection ==
    /\ Idle
    /\ \E env \in DbEnvs :
         LET r == test_connection(connection_pool, secrets_cache, DB_SECRET_NAME, env)
         IN  /\ connection_pool' = r.pool
             /\ secrets_cache' = r.cache
             /\ last' = Call("test_connection", r)
    /\ UNCHANGED <<DB_SECRET_NAME, pipeVars>>

GetSecret ==
    /\ Idle
    /\ \E n \in SecretNames, s \in {"error", "binary"} \cup SecretValues :
         LET r == get_secret(secrets_cache, n, DbEnv(s, "none", TRUE, TRUE, <<>>))
         IN  /\ secrets_cache' = r.cache
             /\ last' = [NoCall EXCEPT !.op = "get_secret", !.name = n,
                                       !.raised = ~r.ok, !.error = r.error,
                                       !.value = r.value, !.queried = r.queried,
                                       !.cached_before = secrets_cache[n]]
    /\ UNCHANGED <<connection_pool, DB_SECRET_NAME, pipeVars>>

CloseAllConnections ==
    /\ Idle
    /\ connection_pool' = close_all_connections(connection_pool)
    /\ last' = [NoCall EXCEPT !.op = "close_all_connections"]
    /\ UNCHANGED <<secrets_cache, DB_SECRET_NAME, pipeVars>>

----------------------------------------------------------------------------
(* The connection manager: claims *)

\* C1: every execute_query call has released the connection it acquired by the
\* time it returns or raises, and no connection of the pool stays checked out
\* after any sequence of execute_query calls.
C1_ConnectionAlwaysReleased ==
    /\ connection_pool.used = 0
    /\ last.op = "execute_query" /\ last.acquired => last.released

\* C2: when execute_query fails, the rollback it attempts does not raise past
\* execute_query and the caller receives the original error.
C2_OriginalErrorReachesCaller ==
    last.op = "execute_query" /\ last.raised =>
        /\ ~last.rollback_raised
        /\ last.error = last.first_error

\* C3: test_connection never raises; it returns False on every failure (secret,
\* pool creation, acquisition, execute, fetch, commit, rollback) and True only
\* when the round trip fetched the value 1.
C3_TestConnectionNeverRaises ==
    last.op = "test_connection" =>
        /\ ~last.raised
        /\ last.value \in BOOLEAN
        /\ last.first_error # NoErr => last.value = FALSE
        /\ last.value = TRUE =>
             /\ last.acquired
             /\ last.fetched # <<>>
             /\ last.fetched[1] # <<>>
             /\ last.fetched[1][1] = 1

\* a test_connection whose commit failed and whose rollback raised as well
C3_Witness ==
    /\ last.op = "test_connection"
    /\ last.first_error = CommitError
    /\ last.rollback_raised
    /\ last.value = FALSE

\* C4: once a secret is cached under a name, no call changes or removes the
\* entry, no call queries the secret store for that name again, and get_secret
\* for that name returns the cached value.
C4_CachedSecretIsKept ==
    [][\A n \in SecretNames :
         secrets_cache[n] # NoSecret =>
            /\ secrets_cache'[n] = secrets_cache[n]
            /\ n \notin last'.queried
            /\ last'.op = "get_secret" /\ last'.name = n =>
                 ~last'.raised /\ last'.value = secrets_cache[n]]_vars

\* a pool rebuilt (after close_all_connections) from the cached credentials,
\* without a query to the secret store
C4_Witness ==
    /\ last.initialised
    /\ last.queried = {}
    /\ secrets_cache[DB_SECRET_NAME] = "creds"

----------------------------------------------------------------------------
(* Text: a string is a sequence of characters; Pound is the pound sign and   *)
(* ACirc the letter A with circumflex that precedes it when UTF-8 is read as *)
(* Latin-1.                                                                 *)

Pound == "GBP"
ACirc == "A^"
Digits == {"0", "1", "2", "3", "4", "5", "6", "7", "8", "9"}

DigitValue(c) ==
    CASE c = "0" -> 0 [] c = "1" -> 1 [] c = "2" -> 2 [] c = "3" -> 3 [] c = "4" -> 4
      [] c = "5" -> 5 [] c = "6" -> 6 [] c = "7" -> 7 [] c = "8" -> 8 [] c = "9" -> 9

\* str.replace(c, ""): every occurrence of the character c removed
RECURSIVE Remove(_, _)
Remove(str, c) ==
    IF str = <<>> THEN <<>>
    ELSE IF Head(str) = c THEN Remove(Tail(str), c)
    ELSE <<Head(str)>> \o Remove(Tail(str), c)

\* str.replace(ab, "") for the two-character string ab, scanning left to right
RECURSIVE RemovePair(_, _, _)
RemovePair(str, a, b) ==
    IF Len(str) < 2 THEN str
    ELSE IF str[1] = a /\ str[2] = b THEN RemovePair(SubSeq(str, 3, Len(str)), a, b)
    ELSE <<Head(str)>> \o RemovePair(Tail(str), a, b)

\* str.strip()
RECURSIVE Strip(_)
Strip(str) ==
    IF str = <<>> THEN str
    ELSE IF Head(str) = " " THEN Strip(Tail(str))
    ELSE IF str[Len(str)] = " " THEN Strip(SubSeq(str, 1, Len(str) - 1))
    ELSE str

RECURSIVE DigitsValue(_)
DigitsValue(ds) ==
    IF ds = <<>> THEN 0 ELSE 10 * DigitsValue(SubSeq(ds, 1, Len(ds) - 1))
                             + DigitValue(ds[Len(ds)])

AllDigits(ds) == \A i \in 1..Len(ds) : ds[i] \in Digits

\* float(str) for unsigned decimal literals of at most two fraction digits:
\* [ok, value in hundredths]; ok = FALSE is ValueError
Float(str) ==
    LET t == Strip(str)
        dots == {i \in 1..Len(t) : t[i] = "."}
        d == IF dots = {} THEN Len(t) + 1 ELSE CHOOSE i \in dots : TRUE
        int == SubSeq(t, 1, d - 1)
        frac == SubSeq(t, d + 1, Len(t))
        ok == /\ Cardinality(dots) <= 1
              /\ AllDigits(int) /\ AllDigits(frac)
              /\ Len(int) + Len(frac) > 0
              /\ Len(frac) <= 2
    IN  IF ~ok THEN [ok |-> FALSE, value |-> 0]
        ELSE [ok |-> TRUE,
              value |-> 100 * DigitsValue(int)
                        + (IF Len(frac) = 1 THEN 10 ELSE 1) * DigitsValue(frac)]

\* "In stock" in availability
ContainsInStock(availability) ==
    availability \in {"In stock", "In stock (3 available)"}

----------------------------------------------------------------------------
(* extract_lambda.py: pure parts *)

\* a parse_price that knows the pound sign only
parse_price_pound_only(price_str) == Float(Strip(Remove(price_str, Pound)))

parse_price(price_str) == Float(Strip(Remove(Remove(price_str, Pound), ACirc)))

\* "<prefix>_<%Y-%m-%d>_<%H%M%S>" of utcnow(): the date and the second, nothing finer
generate_batch_id(prefix, now) == <<prefix, now.date, now.time>>

PriceParseError == Err("ValueError", "could not convert string to float")

\* the loop of save_to_rds without its inner try/except: the first price that
\* does not parse ends the loop with the ValueError
RECURSIVE batch_data_unguarded(_, _, _)
batch_data_unguarded(books, run_date, batch_id) ==
    IF books = <<>> THEN [error |-> NoErr, rows |-> <<>>]
    ELSE LET book == Head(books)
             price_gbp == parse_price(book.price)
             rest == batch_data_unguarded(Tail(books), run_date, batch_id)
         IN  IF ~price_gbp.ok THEN [error |-> PriceParseError, rows |-> <<>>]
             ELSE [rest EXCEPT !.rows =
                     << [title |-> book.title, price_gbp |-> price_gbp.value,
                         availability |-> book.availability,
                         is_in_stock |-> ContainsInStock(book.availability),
                         scraped_date |-> run_date, batch_id |-> batch_id] >> \o @]

\* the loop of save_to_rds: the rows to insert; a record whose price does not
\* parse is logged and skipped (except Exception: continue), so error stays NoErr
RECURSIVE batch_data(_, _, _)
batch_data(books, run_date, batch_id) ==
    IF books = <<>> THEN [error |-> NoErr, rows |-> <<>>]
    ELSE LET book == Head(books)
             price_gbp == parse_price(book.price)
             rest == batch_data(Tail(books), run_date, batch_id)
         IN  IF ~price_gbp.ok THEN rest
             ELSE [rest EXCEPT !.rows =
                     << [title |-> book.title, price_gbp |-> price_gbp.value,
                         availability |-> book.availability,
                         is_in_stock |-> ContainsInStock(book.availability),
                         scraped_date |-> run_date, batch_id |-> batch_id] >> \o @]

\* try: get a connection, build the rows, executemany, commit; except: rollback,
\* re-raise; finally: return the connection
insert_batch(g, data, env) ==
    LET conn == g.ok
        body_error == IF ~g.ok THEN g.error
                      ELSE IF data.error # NoErr THEN data.error
                      ELSE IF env.fault = "execute" THEN ExecuteError
                      ELSE IF env.fault = "commit" THEN CommitError
                      ELSE NoErr
        failed == body_error # NoErr
        rollback == failed /\ conn
        rollback_raised == rollback /\ ~env.rollback_ok
        after == IF conn THEN return_db_connection(g.pool, conn, env) ELSE g.pool
    IN  [pool |-> after, cache |-> g.cache, queried |-> g.queried,
         raised |-> failed,
         error |-> IF rollback_raised THEN RollbackError ELSE body_error,
         first_error |-> body_error,
         value |-> IF failed THEN 0 ELSE Len(data.rows),
         rollback |-> rollback, rollback_raised |-> rollback_raised,
         acquired |-> conn, released |-> conn /\ after.used < g.pool.used,
         rows |-> IF failed THEN <<>> ELSE data.rows,
         fetched |-> <<>>, committed |-> conn /\ ~failed]

save_to_rds(pool, cache, secret_name, env, books, run_date, batch_id) ==
    insert_batch(get_db_connection(pool, cache, secret_name, env),
                 batch_data(books, run_date, batch_id), env)

----------------------------------------------------------------------------
(* The object store and the staging table *)

Dates == 1..(MaxClock + 1)
RawKey(d) == <<"raw/books/date=", d>>
ProcessedKey(d) == <<"processed/books/date=", d>>
SummaryKey(d) == <<"processed/summary/date=", d>>
Keys == {RawKey(d) : d \in Dates} \cup {ProcessedKey(d) : d \in Dates}
        \cup {SummaryKey(d) : d \in Dates}

NoObject == [exists |-> FALSE, body |-> <<>>, writer |-> 0]

\* put_object: writer is the number of the invocation that wrote the object
put_object(bucket, key, body, n) ==
    [bucket EXCEPT ![key] = [exists |-> TRUE, body |-> body, writer |-> n]]

\* the columns the INSERT leaves to their defaults; by is the number of the
\* Collector invocation that inserted the row
RECURSIVE inserted_rows(_, _, _)
inserted_rows(data, now, n) ==
    IF data = <<>> THEN <<>>
    ELSE << [title |-> Head(data).title, price_gbp |-> Head(data).price_gbp,
             availability |-> Head(data).availability,
             is_in_stock |-> Head(data).is_in_stock,
             scraped_date |-> Head(data).scraped_date,
             batch_id |-> Head(data).batch_id,
             processed |-> FALSE, created_at |-> now, by |-> n] >>
         \o inserted_rows(Tail(data), now, n)

----------------------------------------------------------------------------
(* What the scrape can yield *)

Records ==
    { [title |-> "A", price |-> <<Pound, "1", "0", ".", "0", "0">>,
       availability |-> "In stock (3 available)"],
      [title |-> "B", price |-> <<ACirc, Pound, "5", ".", "0", "0">>,
       availability |-> "Out of stock"],
      [title |-> "C", price |-> <<Pound, "x">>,
       availability |-> "In stock (3 available)"] }

\* a catalogue page lists each title once, in page order
TitleRank(t) == CASE t = "A" -> 1 [] t = "B" -> 2 [] t = "C" -> 3
TitlesAscend(books) ==
    \A i \in 1..Len(books) - 1 : TitleRank(books[i].title) < TitleRank(books[i + 1].title)
BookLists == {b \in UNION {[1..n -> Records] : n \in 0..MaxBooks} : TitlesAscend(b)}

----------------------------------------------------------------------------
(* extract_lambda.py: lambda_handler, one stage per step *)

ConnectionTestFailed == Err("Exception", "Database connection test failed")
ScrapeError == Err("RequestException", "scrape failed")
EmptyResultError == Err("Exception", "No books scraped - possible website structure change")
StorageWriteError == Err("ClientError", "put_object failed")

NoRun ==
    [handler |-> "none", pc |-> "idle", n |-> 0, run_date |-> 0, batch_id |-> <<>>,
     books |-> <<>>, stages |-> <<>>, outcome |-> "none", error |-> NoErr,
     status |-> "", statusCode |-> 0, db_records |-> 0, writes |-> {},
     inserted |-> <<>>, get_object |-> "", processed |-> <<>>, summary |-> <<>>,
     cdc_args |-> <<>>, cdc_summary |-> <<>>]

\* the except block of lambda_handler: the run ends with the error e
Failed(r, stage, e) ==
    [r EXCEPT !.pc = "done", !.stages = Append(@, stage), !.error = e]

\* a handler that runs the failed stage again instead of ending the run
CollectorFailed_retry(r, stage, e) == [r EXCEPT !.stages = Append(@, stage)]

\* a handler that re-raises what its except block caught
ReconcilerFailed_reraise(r, stage, e) ==
    [Failed(r, stage, e) EXCEPT !.outcome = "raised", !.status = "error"]

\* the Collector re-raises
CollectorFailed(r, stage, e) ==
    [Failed(r, stage, e) EXCEPT !.outcome = "raised", !.status = "error"]

Passed(r, stage, next) == [r EXCEPT !.pc = next, !.stages = Append(@, stage)]

At(handler, pc) == run.handler = handler /\ run.pc = pc

CollectorStart ==
    /\ Idle
    /\ Len(batches) < MaxRuns
    /\ run' = [NoRun EXCEPT !.handler = "collector", !.pc = "connectivity",
                            !.n = Len(batches) + 1, !.run_date = clock.date,
                            !.batch_id = generate_batch_id("extract", clock)]
    /\ batches' = Append(batches, generate_batch_id("extract", clock))
    /\ last' = NoCall
    /\ UNCHANGED <<connection_pool, secrets_cache, DB_SECRET_NAME, clock, s3,
                   staging_books>>

CollectorConnectivity ==
    /\ At("collector", "connectivity")
    /\ \E env \in StageEnvs :
         LET r == test_connection(connection_pool, secrets_cache, DB_SECRET_NAME, env)
         IN  /\ connection_pool' = r.pool
             /\ secrets_cache' = r.cache
             /\ last' = NoCall
             /\ run' = IF r.value THEN Passed(run, "connectivity", "scrape")
                       ELSE CollectorFailed(run, "connectivity", ConnectionTestFailed)
    /\ UNCHANGED <<DB_SECRET_NAME, clock, s3, staging_books, batches>>

\* the scrape stage without the test len(books) == 0
CollectorScrape_unchecked ==
    /\ At("collector", "scrape")
    /\ \/ run' = CollectorFailed(run, "scrape", ScrapeError)
       \/ \E books \in BookLists :
            run' = Passed([run EXCEPT !.books = books], "scrape", "raw_persist")
    /\ last' = NoCall
    /\ UNCHANGED <<connection_pool, secrets_cache, DB_SECRET_NAME, clock, s3,
                   staging_books, batches>>

CollectorScrape ==
    /\ At("collector", "scrape")
    /\ \/ run' = CollectorFailed(run, "scrape", ScrapeError)
       \/ \E books \in BookLists :
            run' = IF Len(books) = 0
                   THEN CollectorFailed([run EXCEPT !.books = books], "scrape",
                                        EmptyResultError)
                   ELSE Passed([run EXCEPT !.books = books], "scrape", "raw_persist")
    /\ last' = NoCall
    /\ UNCHANGED <<connection_pool, secrets_cache, DB_SECRET_NAME, clock, s3,
                   staging_books, batches>>

\* save_to_s3
CollectorRawPersist ==
    /\ At("collector", "raw_persist")
    /\ \/ /\ run' = CollectorFailed(run, "raw_persist", StorageWriteError)
          /\ s3' = s3
       \/ /\ s3' = put_object(s3, RawKey(run.run_date), run.books, run.n)
          /\ run' = Passed([run EXCEPT !.writes = @ \cup {RawKey(run.run_date)}],
                           "raw_persist", "staging_insert")
    /\ last' = NoCall
    /\ UNCHANGED <<connection_pool, secrets_cache, DB_SECRET_NAME, clock,
                   staging_books, batches>>

CollectorStagingInsert ==
    /\ At("collector", "staging_insert")
    /\ \E env \in StageEnvs :
         LET r == save_to_rds(connection_pool, secrets_cache, DB_SECRET_NAME, env,
                              run.books, run.run_date, run.batch_id)
             rows == inserted_rows(r.rows, clock, run.n)
         IN  /\ connection_pool' = r.pool
             /\ secrets_cache' = r.cache
             /\ last' = NoCall
             /\ staging_books' = staging_books \o rows
             /\ run' = IF r.raised
                       THEN CollectorFailed(run, "staging_insert", r.error)
                       ELSE [Passed(run, "staging_insert", "done") EXCEPT
                               !.outcome = "returned", !.status = "success",
                               !.db_records = r.value, !.inserted = rows]
    /\ UNCHANGED <<DB_SECRET_NAME, clock, s3, batches>>

----------------------------------------------------------------------------
(* transform_lambda.py: pure parts *)

GBP_TO_USD == 127     \* hundredths: the multiplier 1.27
GBP_TO_EUR == 117     \* hundredths: the multiplier 1.17

\* The literals 1.27 and 1.17 are binary doubles c = M / 2^52, not the decimals:
\* 100 * M = 127 * 2^52 + 8 for 1.27 and 100 * M = 117 * 2^52 - 32 for 1.17.
USD_DOUBLE_ERR == 8
EUR_DOUBLE_ERR == 0 - 32

\* round(n / d) to the nearest integer, halves to the even neighbour
RoundDiv(n, d) ==
    LET q == n \div d
        r == n % d
    IN  IF 2 * r < d THEN q
        ELSE IF 2 * r > d THEN q + 1
        ELSE IF q % 2 = 0 THEN q ELSE q + 1

\* 2^k for k >= 0, and 2^k modulo m
RECURSIVE Pow2(_)
Pow2(k) == IF k = 0 THEN 1 ELSE 2 * Pow2(k - 1)

RECURSIVE Pow2Mod(_, _)
Pow2Mod(k, m) == IF k = 0 THEN 1 % m ELSE (2 * Pow2Mod(k - 1, m)) % m

\* the binary exponent of v200 / 200 for v200 >= 100: the largest E >= -1 with
\* 200 * 2^E <= v200
RECURSIVE Exponent(_)
Exponent(v200) == IF v200 < 200 THEN 0 - 1 ELSE 1 + Exponent(v200 \div 2)

\* round(x * c, 2) where the exact decimal product is a half of a hundredth,
\* which happens for half pounds x = n / 2 only (a double holds n / 2 exactly).
\* The double product is d = u * round(x * c / u) with u = 2^(E - 52) and
\*     x * c / u = (A + B) / 100,  A = n * rate * 2^(51 - E),  B = n * err / 2^(E + 1)
\* while the decimal half t has t / u = A / 100.  With A = 100 * Q + R and
\* k = round((R + B) / 100), halves to the even Q + k, the double lies above t
\* when 100 * k > R and below it when 100 * k < R; round(d, 2) rounds the exact
\* binary value d, so it goes up or down accordingly, and half-to-even when d = t.
\* Only A modulo 200 is needed, so every number stays small.
HalfProduct(n, rate, err) ==
    LET E == Exponent(n * rate)
        A200 == (((n * rate) % 200) * Pow2Mod(51 - E, 200)) % 200
        R == A200 % 100
        Qodd == A200 \div 100
        N == R * Pow2(E + 1) + n * err
        D == 100 * Pow2(E + 1)
        q == N \div D
        r == N % D
        k == IF 2 * r < D THEN q
             ELSE IF 2 * r > D THEN q + 1
             ELSE IF (Qodd + q) % 2 = 0 THEN q ELSE q + 1
        lower == (n * rate) \div 2
    IN  IF 100 * k > R THEN lower + 1
        ELSE IF 100 * k < R THEN lower
        ELSE IF lower % 2 = 0 THEN lower ELSE lower + 1

\* round(amount * c, 2) in hundredths, for the double c nearest rate / 100.
\* Off a half of a hundredth the error of the double product (some 10^-16 of
\* it) is far below its distance to the nearest half (10^-4 at least), and the
\* result is the nearest hundredth.
FloatMulRound(amount, rate, err) ==
    IF (amount * rate) % 100 # 50 THEN RoundDiv(amount * rate, 100)
    ELSE HalfProduct(amount \div 50, rate, err)

\* book["price"].replace(mis-encoded pound, "").replace(pound, "").strip(), float()
transform_price(price_str) ==
    Float(Strip(Remove(RemovePair(price_str, ACirc, Pound), Pound)))

\* the loop of transform_data with the availability test ahead of the price
\* parse: an out-of-stock record is counted whatever its price
RECURSIVE transform_loop_stock_first(_, _)
transform_loop_stock_first(raw_data, now) ==
    IF raw_data = <<>>
    THEN [processed |-> <<>>, total_value_gbp |-> 0, in_stock_count |-> 0,
          out_of_stock_count |-> 0]
    ELSE LET book == Head(raw_data)
             rest == transform_loop_stock_first(Tail(raw_data), now)
             price_gbp == transform_price(book.price)
         IN  IF ~ContainsInStock(book.availability)
             THEN [rest EXCEPT !.out_of_stock_count = @ + 1]
             ELSE IF ~price_gbp.ok THEN rest
             ELSE [rest EXCEPT
                     !.in_stock_count = @ + 1,
                     !.total_value_gbp = @ + price_gbp.value,
                     !.processed =
                        << [title |-> book.title,
                            price_gbp |-> price_gbp.value,
                            price_usd |-> FloatMulRound(price_gbp.value, GBP_TO_USD,
                                                       USD_DOUBLE_ERR),
                            price_eur |-> FloatMulRound(price_gbp.value, GBP_TO_EUR,
                                                       EUR_DOUBLE_ERR),
                            in_stock |-> TRUE,
                            availability |-> book.availability,
                            processed_at |-> now] >> \o @]

\* the loop of transform_data over raw_data[i..]: amounts in hundredths
RECURSIVE transform_loop(_, _)
transform_loop(raw_data, now) ==
    IF raw_data = <<>>
    THEN [processed |-> <<>>, total_value_gbp |-> 0, in_stock_count |-> 0,
          out_of_stock_count |-> 0]
    ELSE LET book == Head(raw_data)
             rest == transform_loop(Tail(raw_data), now)
             price_gbp == transform_price(book.price)
         IN  IF ~price_gbp.ok THEN rest
             ELSE IF ContainsInStock(book.availability)
             THEN [rest EXCEPT
                     !.in_stock_count = @ + 1,
                     !.total_value_gbp = @ + price_gbp.value,
                     !.processed =
                        << [title |-> book.title,
                            price_gbp |-> price_gbp.value,
                            price_usd |-> FloatMulRound(price_gbp.value, GBP_TO_USD,
                                                       USD_DOUBLE_ERR),
                            price_eur |-> FloatMulRound(price_gbp.value, GBP_TO_EUR,
                                                       EUR_DOUBLE_ERR),
                            in_stock |-> TRUE,
                            availability |-> book.availability,
                            processed_at |-> now] >> \o @]
             ELSE [rest EXCEPT !.out_of_stock_count = @ + 1]

\* an average taken over every raw record instead of the in-stock ones
transform_data_average_of_raw(raw_data, now) ==
    LET t == transform_loop(raw_data, now)
    IN  [processed |-> t.processed,
         summary |->
            [date |-> now.date,
             total_books_raw |-> Len(raw_data),
             books_in_stock |-> t.in_stock_count,
             books_out_of_stock |-> t.out_of_stock_count,
             total_inventory_value_gbp |-> t.total_value_gbp,
             total_inventory_value_usd |->
                FloatMulRound(t.total_value_gbp, GBP_TO_USD, USD_DOUBLE_ERR),
             average_price_gbp |-> IF Len(raw_data) > 0
                                   THEN RoundDiv(t.total_value_gbp, Len(raw_data))
                                   ELSE 0,
             processed_at |-> now]]

transform_data(raw_data, now) ==
    LET t == transform_loop(raw_data, now)
    IN  [processed |-> t.processed,
         summary |->
            [date |-> now.date,
             total_books_raw |-> Len(raw_data),
             books_in_stock |-> t.in_stock_count,
             books_out_of_stock |-> t.out_of_stock_count,
             total_inventory_value_gbp |-> t.total_value_gbp,
             total_inventory_value_usd |->
                FloatMulRound(t.total_value_gbp, GBP_TO_USD, USD_DOUBLE_ERR),
             average_price_gbp |-> IF t.in_stock_count > 0
                                   THEN RoundDiv(t.total_value_gbp, t.in_stock_count)
                                   ELSE 0,
             processed_at |-> now]]

----------------------------------------------------------------------------
(* The two functions that handle prices, called directly on a raw record list *)

\* decimal literals; each is a multiple of a quarter pound, which a double
\* holds and adds exactly, so that sums in the model are the sums of the code
Decimals ==
    { <<"1", "0", ".", "0", "0">>, <<"5", ".", "0", "0">>, <<"2", ".", "5", "0">>,
      <<"2", "0", ".", "0", "0">>, <<"1", ".", "5", "0">>, <<".", "5">>, <<"7">>,
      <<"2", ".", "2", "5">> }

\* the pound sign as the site sends it, and as it reads when UTF-8 is taken
\* for Latin-1
Prefixes == { <<Pound>>, <<ACirc, Pound>> }

Availabilities == {"In stock (3 available)", "Out of stock"}

RawRecords ==
    Records
    \cup { [title |-> "A", price |-> pre \o d, availability |-> a] :
             pre \in Prefixes, d \in Decimals, a \in Availabilities }
    \cup { [title |-> "B", price |-> <<Pound, "x">>, availability |-> "Out of stock"] }
    \cup { [title |-> "C", price |-> <<ACirc, "5", ".", "0", "0">>,
            availability |-> "In stock (3 available)"] }

RawLists == UNION {[1..n -> RawRecords] : n \in 0..MaxBooks}

\* transform_data(raw_data), on a list as scraped or on the list the loop of
\* save_to_rds has gone through before (the raw object holds the scraped list)
TransformData ==
    /\ run.handler = "functions"
    /\ run.pc \in {"called", "batch_data"}
    /\ LET t == transform_data(run.books, clock)
       IN  run' = [run EXCEPT !.pc = IF run.pc = "called" THEN "transform_data"
                                     ELSE "both",
                              !.processed = t.processed,
                              !.summary = t.summary]
    /\ UNCHANGED <<connection_pool, secrets_cache, DB_SECRET_NAME, last, clock, s3,
                   staging_books, batches>>

\* the loop of save_to_rds, which calls parse_price on every record
BatchData ==
    /\ At("functions", "called")
    /\ run' = [run EXCEPT !.pc = "batch_data",
                          !.inserted = batch_data(run.books, run.run_date,
                                                  run.batch_id).rows]
    /\ UNCHANGED <<connection_pool, secrets_cache, DB_SECRET_NAME, last, clock, s3,
                   staging_books, batches>>

----------------------------------------------------------------------------
(* transform_lambda.py: the database stages *)

MissingUpstreamError == Err("Exception", "Raw data file not found")
StorageReadError == Err("ClientError", "get_object failed")
RawDecodeError == Err("JSONDecodeError", "Expecting value")
BatchNotFoundError == Err("Exception", "No unprocessed batch found for date")
ReconciliationError == Err("Exception", "CDC stored procedure returned no results")

\* a read that reports an absent key as it reports any other failure of the store
read_from_s3_generic(bucket, run_date, fault) ==
    LET object == bucket[RawKey(run_date)]
    IN  IF fault = "store"
        THEN [ok |-> FALSE, error |-> StorageReadError, raw_data |-> <<>>,
              get_object |-> "error"]
        ELSE IF ~object.exists
        THEN [ok |-> FALSE, error |-> StorageReadError, raw_data |-> <<>>,
              get_object |-> "NoSuchKey"]
        ELSE IF fault = "decode"
        THEN [ok |-> FALSE, error |-> RawDecodeError, raw_data |-> <<>>,
              get_object |-> "ok"]
        ELSE [ok |-> TRUE, error |-> NoErr, raw_data |-> object.body,
              get_object |-> "ok"]

\* what get_object answers: the object, NoSuchKey when the key is absent, or
\* another failure of the store; fault is "none", "store" or "decode"
read_from_s3(bucket, run_date, fault) ==
    LET object == bucket[RawKey(run_date)]
    IN  IF fault = "store"
        THEN [ok |-> FALSE, error |-> StorageReadError, raw_data |-> <<>>,
              get_object |-> "error"]
        ELSE IF ~object.exists
        THEN [ok |-> FALSE, error |-> MissingUpstreamError, raw_data |-> <<>>,
              get_object |-> "NoSuchKey"]
        ELSE IF fault = "decode"
        THEN [ok |-> FALSE, error |-> RawDecodeError, raw_data |-> <<>>,
              get_object |-> "ok"]
        ELSE [ok |-> TRUE, error |-> NoErr, raw_data |-> object.body,
              get_object |-> "ok"]

Later(a, b) == a.date > b.date \/ (a.date = b.date /\ a.time > b.time)

\* WHERE scraped_date = run_date AND processed = FALSE ORDER BY created_at DESC LIMIT 1:
\* the batch ids of the matching rows than which no matching row is later
pending_batch_ids(staging, run_date) ==
    LET match == {i \in 1..Len(staging) : /\ staging[i].scraped_date = run_date
                                         /\ ~staging[i].processed}
    IN  {staging[i].batch_id : i \in {j \in match :
            \A k \in match : ~Later(staging[k].created_at, staging[j].created_at)}}

\* the statement get_extract_batch_id executes:
\* SELECT DISTINCT batch_id FROM staging_books WHERE ... ORDER BY created_at DESC LIMIT 1
BatchIdQuery == [distinct |-> TRUE, select |-> {"batch_id"}, order_by |-> {"created_at"}]

\* the server behind psycopg2: PostgreSQL (the deployment the module names), or a
\* server that sorts the matching rows first and then takes the first batch_id
Engines == {"postgresql", "permissive"}

\* PostgreSQL: for SELECT DISTINCT, ORDER BY expressions must appear in select list
Rejects(engine, query) ==
    engine = "postgresql" /\ query.distinct /\ ~(query.order_by \subseteq query.select)

InvalidColumnReference ==
    Err("InvalidColumnReference",
        "for SELECT DISTINCT, ORDER BY expressions must appear in select list")

\* try: get a connection, run the query, fetchone; except: re-raise (no rollback);
\* finally: return the connection.  found is the row fetchone gives, <<>> for None
fetch_batch_id(g, env, engine, found) ==
    LET conn == g.ok
        body_error == IF ~g.ok THEN g.error
                      ELSE IF env.fault \in {"execute", "fetch"} THEN ExecuteError
                      ELSE IF Rejects(engine, BatchIdQuery) THEN InvalidColumnReference
                      ELSE IF found = <<>> THEN BatchNotFoundError
                      ELSE NoErr
        failed == body_error # NoErr
        after == IF conn THEN return_db_connection(g.pool, conn, env) ELSE g.pool
    IN  [pool |-> after, cache |-> g.cache, queried |-> g.queried,
         raised |-> failed, error |-> body_error, first_error |-> body_error,
         value |-> IF failed THEN <<>> ELSE found[1],
         fetched |-> IF failed THEN <<>> ELSE found,
         rollback |-> FALSE, rollback_raised |-> FALSE,
         acquired |-> conn, released |-> conn /\ after.used < g.pool.used,
         rows |-> <<>>, committed |-> FALSE]

get_extract_batch_id(pool, cache, secret_name, env, engine, found) ==
    fetch_batch_id(get_db_connection(pool, cache, secret_name, env), env, engine, found)

\* what process_cdc_batch can report: no row, or one row of five counts
CdcRows == { <<>>, <<1, 2, 3, 4, 5>>, <<5, 4, 3, 2, 1>>, <<0, 0, 0, 0, 0>> }

\* a result dictionary whose keys are bound to the row in another order
cdc_summary_reordered(result) ==
    [new_books |-> result[1], removed_books |-> result[3],
     price_changes |-> result[2], stock_changes |-> result[4],
     total_processed |-> result[5]]

\* new_books, removed_books, price_changes, stock_changes, total_processed = result
cdc_summary(result) ==
    [new_books |-> result[1], removed_books |-> result[2],
     price_changes |-> result[3], stock_changes |-> result[4],
     total_processed |-> result[5]]

\* the same function with an except block that re-raises without a rollback
call_process_cdc_batch_norollback(g, env, result) ==
    LET conn == g.ok
        body_error == IF ~g.ok THEN g.error
                      ELSE IF env.fault \in {"execute", "fetch"} THEN ExecuteError
                      ELSE IF result = <<>> THEN ReconciliationError
                      ELSE IF env.fault = "commit" THEN CommitError
                      ELSE NoErr
        failed == body_error # NoErr
        after == IF conn THEN return_db_connection(g.pool, conn, env) ELSE g.pool
    IN  [pool |-> after, cache |-> g.cache, queried |-> g.queried,
         raised |-> failed, error |-> body_error, first_error |-> body_error,
         value |-> IF failed THEN <<>> ELSE cdc_summary(result),
         rollback |-> FALSE, rollback_raised |-> FALSE,
         acquired |-> conn, released |-> conn /\ after.used < g.pool.used,
         rows |-> <<>>,
         fetched |-> IF conn /\ env.fault \notin {"execute", "fetch"} THEN result ELSE <<>>,
         committed |-> conn /\ ~failed]

\* try: get a connection, call the procedure, fetchone, commit; except: rollback,
\* re-raise; finally: return the connection.  result is the row fetchone gives
call_process_cdc_batch(g, env, result) ==
    LET conn == g.ok
        body_error == IF ~g.ok THEN g.error
                      ELSE IF env.fault \in {"execute", "fetch"} THEN ExecuteError
                      ELSE IF result = <<>> THEN ReconciliationError
                      ELSE IF env.fault = "commit" THEN CommitError
                      ELSE NoErr
        failed == body_error # NoErr
        rollback == failed /\ conn
        rollback_raised == rollback /\ ~env.rollback_ok
        after == IF conn THEN return_db_connection(g.pool, conn, env) ELSE g.pool
    IN  [pool |-> after, cache |-> g.cache, queried |-> g.queried,
         raised |-> failed,
         error |-> IF rollback_raised THEN RollbackError ELSE body_error,
         first_error |-> body_error,
         value |-> IF failed THEN <<>> ELSE cdc_summary(result),
         rollback |-> rollback, rollback_raised |-> rollback_raised,
         acquired |-> conn, released |-> conn /\ after.used < g.pool.used,
         rows |-> <<>>,
         fetched |-> IF conn /\ env.fault \notin {"execute", "fetch"} THEN result ELSE <<>>,
         committed |-> conn /\ ~failed]

execute_cdc_batch_processing(pool, cache, secret_name, env, result) ==
    call_process_cdc_batch(get_db_connection(pool, cache, secret_name, env), env, result)

\* the stored procedure's effect on the staging table once committed: the rows of
\* the batch are consumed
process_cdc_batch(staging, batch_id, run_date) ==
    [i \in 1..Len(staging) |->
        IF staging[i].batch_id = batch_id
        THEN [staging[i] EXCEPT !.processed = TRUE]
        ELSE staging[i]]

----------------------------------------------------------------------------
(* transform_lambda.py: lambda_handler, one stage per step *)

\* the Reconciler returns the error payload: statusCode 500 with error_message
\* and error_type
ReconcilerFailed(r, stage, e) ==
    [Failed(r, stage, e) EXCEPT !.outcome = "returned", !.status = "error",
                                !.statusCode = 500]

ReconcilerStart ==
    /\ Idle
    /\ run' = [NoRun EXCEPT !.handler = "reconciler", !.pc = "connectivity",
                            !.run_date = clock.date]
    /\ last' = NoCall
    /\ UNCHANGED <<connection_pool, secrets_cache, DB_SECRET_NAME, clock, s3,
                   staging_books, batches>>

ReconcilerConnectivity ==
    /\ At("reconciler", "connectivity")
    /\ \E env \in StageEnvs :
         LET r == test_connection(connection_pool, secrets_cache, DB_SECRET_NAME, env)
         IN  /\ connection_pool' = r.pool
             /\ secrets_cache' = r.cache
             /\ run' = IF r.value THEN Passed(run, "connectivity", "read_raw")
                       ELSE ReconcilerFailed(run, "connectivity", ConnectionTestFailed)
    /\ last' = NoCall
    /\ UNCHANGED <<DB_SECRET_NAME, clock, s3, staging_books, batches>>

ReconcilerReadRaw ==
    /\ At("reconciler", "read_raw")
    /\ \E fault \in {"none", "store", "decode"} :
         LET r == read_from_s3(s3, run.run_date, fault)
             seen == [run EXCEPT !.get_object = r.get_object]
         IN  run' = IF r.ok
                    THEN Passed([seen EXCEPT !.books = r.raw_data], "read_raw",
                                "transform")
                    ELSE ReconcilerFailed(seen, "read_raw", r.error)
    /\ last' = NoCall
    /\ UNCHANGED <<connection_pool, secrets_cache, DB_SECRET_NAME, clock, s3,
                   staging_books, batches>>

ReconcilerTransform ==
    /\ At("reconciler", "transform")
    /\ LET t == transform_data(run.books, clock)
       IN  run' = Passed([run EXCEPT !.processed = t.processed,
                                     !.summary = t.summary],
                         "transform", "persist")
    /\ last' = NoCall
    /\ UNCHANGED <<connection_pool, secrets_cache, DB_SECRET_NAME, clock, s3,
                   staging_books, batches>>

\* a persist stage that writes nothing and leaves the two objects for later
ReconcilerPersist_deferred ==
    /\ At("reconciler", "persist")
    /\ \/ run' = ReconcilerFailed(run, "persist", StorageWriteError)
       \/ run' = Passed(run, "persist", "resolve_batch")
    /\ last' = NoCall
    /\ UNCHANGED <<connection_pool, secrets_cache, DB_SECRET_NAME, clock, s3,
                   staging_books, batches>>

\* save_processed_to_s3: two put_object calls, the second only after the first
ReconcilerPersist ==
    /\ At("reconciler", "persist")
    /\ LET pk == ProcessedKey(run.run_date)
           sk == SummaryKey(run.run_date)
           one == put_object(s3, pk, run.processed, 0)
           two == put_object(one, sk, run.summary, 0)
       IN  \/ /\ s3' = s3
              /\ run' = ReconcilerFailed(run, "persist", StorageWriteError)
           \/ /\ s3' = one
              /\ run' = ReconcilerFailed([run EXCEPT !.writes = @ \cup {pk}],
                                         "persist", StorageWriteError)
           \/ /\ s3' = two
              /\ run' = Passed([run EXCEPT !.writes = @ \cup {pk, sk}],
                               "persist", "resolve_batch")
    /\ last' = NoCall
    /\ UNCHANGED <<connection_pool, secrets_cache, DB_SECRET_NAME, clock,
                   staging_books, batches>>

ReconcilerResolveBatch ==
    /\ At("reconciler", "resolve_batch")
    /\ LET ids == pending_batch_ids(staging_books, run.run_date)
       IN  \E env \in StageEnvs, engine \in Engines :
           \E found \in IF ids = {} THEN {<<>>} ELSE {<<b>> : b \in ids} :
             LET r == get_extract_batch_id(connection_pool, secrets_cache,
                                           DB_SECRET_NAME, env, engine, found)
             IN  /\ connection_pool' = r.pool
                 /\ secrets_cache' = r.cache
                 /\ last' = Call("get_extract_batch_id", r)
                 /\ run' = IF r.raised
                           THEN ReconcilerFailed(run, "resolve_batch", r.error)
                           ELSE Passed([run EXCEPT !.batch_id = r.value],
                                       "resolve_batch", "invoke_cdc")
    /\ UNCHANGED <<DB_SECRET_NAME, clock, s3, staging_books, batches>>

ReconcilerInvokeCdc ==
    /\ At("reconciler", "invoke_cdc")
    /\ \E env \in StageEnvs : \E result \in CdcRows :
         LET r == execute_cdc_batch_processing(connection_pool, secrets_cache,
                                               DB_SECRET_NAME, env, result)
             called == [run EXCEPT !.cdc_args =
                          IF r.acquired /\ env.fault # "execute"
                          THEN <<run.batch_id, run.run_date>> ELSE <<>>]
         IN  /\ connection_pool' = r.pool
             /\ last' = Call("execute_cdc_batch_processing", r)
             /\ secrets_cache' = r.cache
             /\ staging_books' = IF r.committed
                                 THEN process_cdc_batch(staging_books, run.batch_id,
                                                        run.run_date)
                                 ELSE staging_books
             /\ run' = IF r.raised
                       THEN ReconcilerFailed(called, "invoke_cdc", r.error)
                       ELSE [Passed(called, "invoke_cdc", "done") EXCEPT
                               !.outcome = "returned", !.status = "success",
                               !.statusCode = 200, !.cdc_summary = r.value]
    /\ UNCHANGED <<DB_SECRET_NAME, clock, s3, batches>>

----------------------------------------------------------------------------
(* Time *)

Ticks == (clock.date - 1) + clock.time

TickSecond ==
    /\ Ticks < MaxClock
    /\ clock' = [clock EXCEPT !.time = @ + 1]
    /\ last' = NoCall
    /\ UNCHANGED <<connection_pool, secrets_cache, DB_SECRET_NAME, s3, staging_books,
                   run, batches>>

TickDay ==
    /\ Ticks < MaxClock
    /\ clock' = [date |-> clock.date + 1, time |-> 0]
    /\ last' = NoCall
    /\ UNCHANGED <<connection_pool, secrets_cache, DB_SECRET_NAME, s3, staging_books,
                   run, batches>>

----------------------------------------------------------------------------
(* The handlers: claims *)

IsPrefix(s, t) == Len(s) <= Len(t) /\ \A i \in 1..Len(s) : s[i] = t[i]

CollectorStages == <<"connectivity", "scrape", "raw_persist", "staging_insert">>

ReconcilerStages ==
    <<"connectivity", "read_raw", "transform", "persist", "resolve_batch", "invoke_cdc">>

\* a step changes the object store or the staging table only if the invocation
\* records it: a key added to writes, rows added to inserted, or the CDC call
WritesRecorded ==
    (\/ Idle
     \/ /\ run'.writes = run.writes
        /\ run'.inserted = run.inserted
        /\ run'.cdc_args = run.cdc_args)
    => (s3' = s3 /\ staging_books' = staging_books)

\* C1 (the defect reached): execute_query has returned or raised, it had acquired a
\* connection, and the connection is still checked out of the pool
C1_Witness ==
    /\ last.op = "execute_query"
    /\ last.acquired
    /\ ~last.released
    /\ connection_pool.used > 0

\* C2 (the defect reached): the query failed, the rollback raised, and the caller of
\* execute_query received the rollback's error
C2_Witness ==
    /\ last.op = "execute_query"
    /\ last.first_error = ExecuteError
    /\ last.rollback_raised
    /\ last.error = RollbackError

\* C5: in a Collector run the stages run in the order connectivity check, scrape,
\* raw persist, staging insert; each stage runs at most once and only after every
\* earlier stage succeeded; the failure of a stage ends the run and is raised to
\* the caller; the run returns only when all four stages succeeded.
C5_CollectorStagesInOrder ==
    run.handler = "collector" =>
      /\ IsPrefix(run.stages, CollectorStages)
      /\ run.pc # "done" =>
           /\ run.error = NoErr
           /\ run.outcome = "none"
           /\ run.pc = CollectorStages[Len(run.stages) + 1]
      /\ run.pc = "done" =>
           \/ /\ run.outcome = "raised"
              /\ run.error # NoErr
              /\ run.status = "error"
           \/ /\ run.outcome = "returned"
              /\ run.error = NoErr
              /\ run.stages = CollectorStages

C5_Witness ==
    /\ run.handler = "collector"
    /\ run.stages = CollectorStages
    /\ run.outcome = "raised"
    /\ run.error = CommitError

\* the scrape stage of the current Collector run returned a list of zero records
ZeroRecords ==
    /\ run.handler = "collector"
    /\ Len(run.stages) >= 2
    /\ run.books = <<>>
    /\ run.error # ScrapeError

\* C6: when the scrape yields zero records the Collector run ends, raising
\* EmptyResultError, after the scrape stage; the run has written no object and
\* inserted no row, and every change of the object store or the staging table is
\* a recorded write, so the run leaves both as it found them.
C6_EmptyScrapeWritesNothing ==
    /\ [](ZeroRecords =>
            /\ run.pc = "done"
            /\ run.outcome = "raised"
            /\ run.error = EmptyResultError
            /\ run.stages = <<"connectivity", "scrape">>
            /\ run.writes = {}
            /\ run.inserted = <<>>)
    /\ [][WritesRecorded]_vars

C6_Witness ==
    /\ ZeroRecords
    /\ run.n = 2
    /\ staging_books # <<>>
    /\ \E d \in Dates : s3[RawKey(d)].exists

\* the records of a scrape whose price parses
Parseable(books) == SelectSeq(books, LAMBDA b : parse_price(b.price).ok)

\* C7: when the staging insert returns, the count it returns and the number of
\* rows it appended to the staging table both equal the number of scraped records
\* minus the number whose price does not parse; the rows are those of the records
\* whose price parses, in order, each carrying the batch identifier generated at
\* the start of the run; a price that does not parse never fails the stage.
C7_StagingInsertCount ==
    (run.handler = "collector" /\ Len(run.stages) = 4) =>
      /\ run.error # PriceParseError
      /\ run.outcome = "raised" => run.inserted = <<>>
      /\ run.outcome = "returned" =>
           LET good == Parseable(run.books)
               n == Len(staging_books)
           IN  /\ run.db_records =
                    Len(run.books) - Cardinality({i \in 1..Len(run.books) :
                                                    ~parse_price(run.books[i].price).ok})
               /\ Len(run.inserted) = run.db_records
               /\ n >= Len(run.inserted)
               /\ SubSeq(staging_books, n - Len(run.inserted) + 1, n) = run.inserted
               /\ \A i \in 1..Len(run.inserted) :
                    /\ run.inserted[i].title = good[i].title
                    /\ run.inserted[i].batch_id = run.batch_id
                    /\ run.inserted[i].batch_id = batches[run.n]

C7_Witness ==
    /\ run.handler = "collector"
    /\ run.outcome = "returned"
    /\ Len(run.books) = 2
    /\ Len(Parseable(run.books)) = 1
    /\ run.db_records = 1
    /\ Len(staging_books) = 1

\* C8: any two Collector invocations have different batch identifiers, and the
\* staging rows that carry one batch identifier were all inserted by one
\* invocation.
C8_BatchIdUniquePerInvocation ==
    /\ \A i, j \in 1..Len(batches) : i # j => batches[i] # batches[j]
    /\ \A i, j \in 1..Len(staging_books) :
         staging_books[i].batch_id = staging_books[j].batch_id
            => staging_books[i].by = staging_books[j].by

\* C8 (the defect reached): two rows of the staging table, inserted by different
\* invocations, carry the same batch identifier
C8_Witness ==
    \E i, j \in 1..Len(staging_books) :
       /\ staging_books[i].by # staging_books[j].by
       /\ staging_books[i].batch_id = staging_books[j].batch_id

\* C9: the Reconciler's handler never raises to its caller: a run that ends has
\* returned a payload; a failure of any stage ends the run with statusCode 500 and
\* the error's message and type; statusCode 200 is returned only when all six
\* stages succeeded, in their order.
C9_ReconcilerNeverPropagates ==
    run.handler = "reconciler" =>
      /\ run.outcome # "raised"
      /\ IsPrefix(run.stages, ReconcilerStages)
      /\ run.pc # "done" => run.error = NoErr /\ run.statusCode = 0
      /\ run.pc = "done" => run.outcome = "returned" /\ run.statusCode \in {200, 500}
      /\ run.error # NoErr =>
           /\ run.pc = "done"
           /\ run.statusCode = 500
           /\ run.status = "error"
           /\ run.error.type # ""
           /\ run.error.msg # ""
      /\ run.statusCode = 200 <=>
           /\ run.pc = "done"
           /\ run.error = NoErr
           /\ run.stages = ReconcilerStages

C9_Witness ==
    /\ run.handler = "reconciler"
    /\ run.stages = ReconcilerStages
    /\ run.statusCode = 500
    /\ run.error = ReconciliationError

\* the read stage of the current Reconciler run reached the store, and the store
\* holds no raw object for the run date
MissingRaw ==
    /\ run.handler = "reconciler"
    /\ Len(run.stages) >= 2
    /\ run.get_object # "error"
    /\ ~s3[RawKey(run.run_date)].exists

\* C10: when the store holds no raw object for the run date, the Reconciler run
\* ends at the read stage with MissingUpstreamError in its statusCode 500 payload;
\* it has written no processed or summary object and has not called the CDC
\* procedure, and every change of the object store or the staging table is a
\* recorded write; no other failure of the read stage is reported with that error.
C10_MissingRawObject ==
    /\ [](MissingRaw =>
            /\ run.get_object = "NoSuchKey"
            /\ run.pc = "done"
            /\ run.error = MissingUpstreamError
            /\ run.statusCode = 500
            /\ run.stages = <<"connectivity", "read_raw">>
            /\ run.writes = {}
            /\ run.cdc_args = <<>>)
    /\ []((run.handler = "reconciler" /\ run.get_object \in {"error", "ok"}) =>
            run.error # MissingUpstreamError)
    /\ [](MissingUpstreamError \notin {StorageReadError, RawDecodeError})
    /\ [][WritesRecorded]_vars

C10_Witness ==
    /\ MissingRaw
    /\ run.run_date = 2
    /\ s3[RawKey(1)].exists
    /\ staging_books # <<>>
    /\ run.error = MissingUpstreamError

----------------------------------------------------------------------------
(* The database stages of the Reconciler: claims *)

\* get_extract_batch_id got its connection and the server answered its statement
LookupAnswered ==
    /\ last.op = "get_extract_batch_id"
    /\ last.acquired
    /\ last.first_error # ExecuteError

\* C11: when the server answers the lookup, get_extract_batch_id returns the batch
\* identifier of a most recently created staging row of the run date that is not
\* yet processed, and it fails, with BatchNotFoundError, exactly when there is no
\* such row.
C11_LatestPendingBatch ==
    LookupAnswered =>
      LET ids == pending_batch_ids(staging_books, run.run_date)
      IN  /\ ids # {} => ~last.raised /\ last.value \in ids
          /\ ids = {} => last.raised /\ last.error = BatchNotFoundError

\* C11 (the defect reached): unprocessed rows of the run date exist and the lookup
\* raises the server's rejection of the statement
C11_Witness ==
    /\ LookupAnswered
    /\ pending_batch_ids(staging_books, run.run_date) # {}
    /\ last.raised
    /\ last.error = InvalidColumnReference

\* execute_cdc_batch_processing was the last call
CdcCalled == last.op = "execute_cdc_batch_processing"

\* C12: when the CDC invocation succeeds, it was made with (batch id, run date),
\* the result's new_books, removed_books, price_changes, stock_changes and
\* total_processed are the first to fifth value of the row the procedure
\* returned, and the Reconciler's success payload carries the same result.
C12_CdcResultMapping ==
    (CdcCalled /\ ~last.raised) =>
      /\ Len(last.fetched) = 5
      /\ last.value.new_books = last.fetched[1]
      /\ last.value.removed_books = last.fetched[2]
      /\ last.value.price_changes = last.fetched[3]
      /\ last.value.stock_changes = last.fetched[4]
      /\ last.value.total_processed = last.fetched[5]
      /\ DOMAIN last.value = {"new_books", "removed_books", "price_changes",
                              "stock_changes", "total_processed"}
      /\ run.cdc_args = <<run.batch_id, run.run_date>>
      /\ run.statusCode = 200
      /\ run.cdc_summary = last.value

C12_Witness ==
    /\ CdcCalled
    /\ run.statusCode = 200
    /\ last.fetched = <<5, 4, 3, 2, 1>>
    /\ run.cdc_summary.new_books = 5
    /\ run.cdc_summary.removed_books = 4
    /\ run.cdc_summary.total_processed = 1

\* C13: execute_cdc_batch_processing commits only after the procedure returned a
\* row, and then always attempts the commit; zero rows make it fail with
\* ReconciliationError; every failure on an acquired connection is rolled back and
\* raised; no call both commits and rolls back, and none commits after a failure.
C13_CommitOrRollback ==
    CdcCalled =>
      /\ last.committed => last.fetched # <<>> /\ ~last.raised /\ ~last.rollback
      /\ (last.fetched # <<>> /\ ~last.committed) => last.first_error = CommitError
      /\ (last.acquired /\ last.fetched = <<>> /\ last.first_error # ExecuteError)
            => last.raised /\ last.first_error = ReconciliationError
      /\ (last.raised /\ last.acquired) => last.rollback /\ ~last.committed
      /\ last.raised <=> ~last.committed
      /\ ~(last.committed /\ last.rollback)
      /\ ~last.committed =>
            \A i \in 1..Len(staging_books) :
               staging_books[i].batch_id = run.batch_id => ~staging_books[i].processed

C13_Witness ==
    /\ CdcCalled
    /\ last.acquired
    /\ last.first_error = ReconciliationError
    /\ last.rollback
    /\ ~last.committed
    /\ run.statusCode = 500

DatabaseStages ==
    {"save_to_rds", "get_extract_batch_id", "execute_cdc_batch_processing",
     "execute_query"}

\* C16: every database-touching stage (Collector staging insert, Reconciler
\* batch-id lookup, Reconciler CDC invocation, execute_query) that fails after
\* acquiring its connection rolls back on that connection before it re-raises,
\* and releases the acquired connection on every outcome.
C16_RollbackBeforeReraise ==
    last.op \in DatabaseStages =>
      /\ (last.acquired /\ last.raised) => last.rollback
      /\ last.acquired => last.released

\* the lookup's query fails on its acquired connection; the error is re-raised
\* and the connection goes back to the pool without a rollback
C16_Witness ==
    /\ last.op = "get_extract_batch_id"
    /\ last.acquired
    /\ last.raised /\ last.error = ExecuteError
    /\ ~last.rollback
    /\ last.released
    /\ run.statusCode = 500

\* a Reconciler run has returned its error payload
ReconcilerError == At("reconciler", "done") /\ run.statusCode = 500

FailedAt == run.stages[Len(run.stages)]

\* C20 as stated: a Reconciler run that returns an error payload after failing
\* at batch-id resolution or at CDC invocation has written neither the
\* processed-books object nor the summary object of its run date.
C20_NoPartialOutput ==
    (ReconcilerError /\ FailedAt \in {"resolve_batch", "invoke_cdc"}) =>
       /\ ProcessedKey(run.run_date) \notin run.writes
       /\ SummaryKey(run.run_date) \notin run.writes

\* C20: a Reconciler run that returns an error payload has written nothing when
\* it failed before the persist stage, and at most the processed-books object
\* when it failed in the persist stage; when it failed at batch-id resolution or
\* at CDC invocation it has written both the processed-books object and the
\* summary object of its run date, which stay in the store.
C20_OutputPrecedesCdc ==
    ReconcilerError =>
      LET pk == ProcessedKey(run.run_date)
          sk == SummaryKey(run.run_date)
      IN  /\ FailedAt \in {"connectivity", "read_raw"} => run.writes = {}
          /\ FailedAt = "persist" => run.writes \subseteq {pk}
          /\ FailedAt \in {"resolve_batch", "invoke_cdc"} =>
                /\ run.writes = {pk, sk}
                /\ s3[pk].exists /\ s3[pk].body = run.processed
                /\ s3[sk].exists /\ s3[sk].body = run.summary

\* no pending batch: the run ends in an error payload with both objects written
C20_Witness ==
    /\ ReconcilerError
    /\ FailedAt = "resolve_batch"
    /\ run.error = BatchNotFoundError
    /\ run.writes = {ProcessedKey(run.run_date), SummaryKey(run.run_date)}
    /\ s3[SummaryKey(run.run_date)].exists

\* the Collector invocation that wrote the raw object of the run date; no
\* Collector runs while the Reconciler does, so it is the object the run read
RawWriter == s3[RawKey(run.run_date)].writer

----------------------------------------------------------------------------
(* Prices and the transform: claims *)

Transformed == run.handler = "functions" /\ run.pc \in {"transform_data", "both"}

InStock(book) == ContainsInStock(book.availability)
Parses(book) == transform_price(book.price).ok

\* the raw records that transform_data keeps, in order
Kept(raw_data) == SelectSeq(raw_data, LAMBDA b : InStock(b) /\ Parses(b))

Count(raw_data, Test(_)) == Cardinality({i \in 1..Len(raw_data) : Test(raw_data[i])})

OutOfStock(book) == ~InStock(book)
OutOfStockParsing(book) == ~InStock(book) /\ Parses(book)

\* transform_data always returns; the processed list is the in-stock records
\* whose price parses, in order, and holds no out-of-stock record;
\* total_books_raw is the length of the raw list
TransformKeepsInStock ==
    Transformed =>
      LET kept == Kept(run.books)
      IN  /\ Len(run.processed) = Len(kept)
          /\ \A i \in 1..Len(kept) :
                /\ run.processed[i].title = kept[i].title
                /\ run.processed[i].availability = kept[i].availability
                /\ run.processed[i].price_gbp = transform_price(kept[i].price).value
                /\ run.processed[i].in_stock
                /\ InStock(run.processed[i])
          /\ run.summary.books_in_stock = Len(kept)
          /\ run.summary.total_books_raw = Len(run.books)
          \* the scenario: 10.00 in stock, then 5.00 out of stock
          /\ ( /\ Len(run.books) = 2
               /\ run.books[1].price = <<Pound, "1", "0", ".", "0", "0">>
               /\ run.books[1].availability = "In stock (3 available)"
               /\ run.books[2].price = <<Pound, "5", ".", "0", "0">>
               /\ run.books[2].availability = "Out of stock" ) =>
                /\ Len(run.processed) = 1
                /\ run.processed[1].price_gbp = 1000
                /\ run.processed[1].price_usd = 1270
                /\ run.processed[1].price_eur = 1170
                /\ run.summary.books_in_stock = 1
                /\ run.summary.books_out_of_stock = 1
                /\ run.summary.total_inventory_value_gbp = 1000

\* C14 as stated: transform_data puts exactly the in-stock records that parse
\* into the processed list and no out-of-stock record; every out-of-stock
\* record is counted in books_out_of_stock; total_books_raw is the raw list
\* length; a record whose transform fails is skipped and the batch goes on.
C14_EveryOutOfStockCounted ==
    /\ TransformKeepsInStock
    /\ Transformed => run.summary.books_out_of_stock = Count(run.books, OutOfStock)

\* C14: transform_data puts exactly the in-stock records that parse into the
\* processed list and no out-of-stock record; every out-of-stock record whose
\* price parses is counted in books_out_of_stock, and one whose price does not
\* parse is skipped uncounted like any record that fails; total_books_raw is the
\* raw list length; a record whose transform fails never aborts the batch.
C14_TransformFilter ==
    /\ TransformKeepsInStock
    /\ Transformed =>
          run.summary.books_out_of_stock = Count(run.books, OutOfStockParsing)

\* a malformed in-stock record, a malformed out-of-stock one: both skipped,
\* neither counted, the batch returned
C14_Witness ==
    /\ Transformed
    /\ Len(run.books) = 2
    /\ ~Parses(run.books[1]) /\ InStock(run.books[1])
    /\ ~Parses(run.books[2]) /\ OutOfStock(run.books[2])
    /\ run.processed = <<>>
    /\ run.summary.total_books_raw = 2
    /\ run.summary.books_out_of_stock = 0

\* the in-stock value of a raw list, in hundredths
RECURSIVE Total(_)
Total(kept) ==
    IF kept = <<>> THEN 0
    ELSE transform_price(Head(kept).price).value + Total(Tail(kept))

\* transform_data returns a summary whose average is 0 when no record is
\* counted in stock
AverageZeroWithoutStock ==
    (Transformed /\ Kept(run.books) = <<>>) =>
       /\ run.summary.books_in_stock = 0
       /\ run.summary.average_price_gbp = 0

\* C15 as stated: when no record is counted in stock (empty list, only
\* out-of-stock records, only malformed records) transform_data completes and
\* the average is exactly 0; otherwise the average is the total in-stock value
\* divided by the in-stock count.
C15_AverageIsQuotient ==
    /\ AverageZeroWithoutStock
    /\ (Transformed /\ Kept(run.books) # <<>>) =>
          run.summary.average_price_gbp * Len(Kept(run.books)) = Total(Kept(run.books))

\* C15: when no record is counted in stock transform_data completes and the
\* average is exactly 0; otherwise the average is the total in-stock value
\* divided by the in-stock count and rounded to two decimals: a whole number of
\* hundredths, at most half a hundredth from the quotient.
C15_AverageGuarded ==
    /\ AverageZeroWithoutStock
    /\ (Transformed /\ Kept(run.books) # <<>>) =>
          LET n == Len(Kept(run.books))
              d == run.summary.average_price_gbp * n - Total(Kept(run.books))
          IN  /\ run.summary.books_in_stock = n
              /\ run.summary.total_inventory_value_gbp = Total(Kept(run.books))
              /\ 2 * d <= n
              /\ 0 - 2 * d <= n

\* a malformed record and an out-of-stock one: nothing in stock, average 0
C15_Witness ==
    /\ Transformed
    /\ Len(run.books) = 2
    /\ ~Parses(run.books[1])
    /\ Parses(run.books[2]) /\ OutOfStock(run.books[2])
    /\ run.summary.books_out_of_stock = 1
    /\ run.summary.books_in_stock = 0
    /\ run.summary.average_price_gbp = 0

\* amount * rate / 100 rounded to a whole number of hundredths: the nearest
\* one, and at an exact half the upper neighbour (half up) or the even one
\* (half to even)
Rounded(amount, rate) ==
    IF (amount * rate) % 100 = 50
    THEN {(amount * rate) \div 100 + 1, RoundDiv(amount * rate, 100)}
    ELSE {RoundDiv(amount * rate, 100)}

\* C17: for every in-stock record the processed record's price_usd is
\* price_gbp times 1.27 and its price_eur is price_gbp times 1.17, each rounded
\* to two decimals; the result depends on price_gbp only; price_gbp 20.00
\* gives price_usd 25.40 and price_eur 23.40.
C17_ConversionRounded ==
    Transformed =>
      \A i \in 1..Len(run.processed) :
         LET b == run.processed[i]
         IN  /\ b.price_usd \in Rounded(b.price_gbp, GBP_TO_USD)
             /\ b.price_eur \in Rounded(b.price_gbp, GBP_TO_EUR)
             /\ b.price_gbp = 2000 => b.price_usd = 2540 /\ b.price_eur = 2340
             /\ \A j \in 1..Len(run.processed) :
                   run.processed[j].price_gbp = b.price_gbp =>
                      /\ run.processed[j].price_usd = b.price_usd
                      /\ run.processed[j].price_eur = b.price_eur

\* 2.50 in stock comes out as 3.17 dollars; 2.50 * 1.27 is 3.175
C17_Witness ==
    /\ Transformed
    /\ Len(run.processed) = 1
    /\ run.processed[1].price_gbp = 250
    /\ run.processed[1].price_usd = 317
    /\ run.processed[1].price_eur = 292

\* a decimal literal: digits around at most one point, one digit at least
WellFormed(d) ==
    /\ \A i \in 1..Len(d) : d[i] \in Digits \cup {"."}
    /\ Cardinality({i \in 1..Len(d) : d[i] = "."}) <= 1
    /\ \E i \in 1..Len(d) : d[i] \in Digits

\* what follows the currency symbol, correct or mis-encoded
Body(price) ==
    IF Len(price) >= 2 /\ SubSeq(price, 1, 2) = <<ACirc, Pound>>
    THEN SubSeq(price, 3, Len(price))
    ELSE IF Len(price) >= 1 /\ price[1] = Pound THEN Tail(price)
    ELSE price

Symbol(price) == SubSeq(price, 1, Len(price) - Len(Body(price)))

WellFormedPrice(book) == Symbol(book.price) \in Prefixes /\ WellFormed(Body(book.price))

AllOf(raw_data, Test(_)) == \A i \in 1..Len(raw_data) : Test(raw_data[i])

\* C18: for every well-formed decimal string d, price parsing in the Collector
\* (parse_price, for every staging row) and in the Reconciler (transform_data,
\* for every processed record) yields the value of d both for the pound sign
\* followed by d and for the mis-encoded pound sign followed by d, hence the
\* same value for the two.
C18_BothSymbolsParse ==
    AllOf(run.books, WellFormedPrice) =>
      /\ At("functions", "batch_data") =>
            /\ Len(run.inserted) = Len(run.books)
            /\ \A i \in 1..Len(run.books) :
                  /\ Float(Body(run.books[i].price)).ok
                  /\ run.inserted[i].price_gbp = Float(Body(run.books[i].price)).value
      /\ (Transformed /\ AllOf(run.books, InStock)) =>
            /\ Len(run.processed) = Len(run.books)
            /\ \A i \in 1..Len(run.books) :
                  run.processed[i].price_gbp = Float(Body(run.books[i].price)).value

\* 2.25 behind the pound sign and behind the mis-encoded one: two staging rows
\* of 2.25
C18_Witness ==
    /\ At("functions", "batch_data")
    /\ Len(run.books) = 2
    /\ Symbol(run.books[1].price) = <<Pound>>
    /\ Symbol(run.books[2].price) = <<ACirc, Pound>>
    /\ Body(run.books[1].price) = <<"2", ".", "2", "5">>
    /\ Body(run.books[2].price) = <<"2", ".", "2", "5">>
    /\ Len(run.inserted) = 2
    /\ run.inserted[1].price_gbp = 225
    /\ run.inserted[2].price_gbp = 225

\* C21: the Collector and the Reconciler skip exactly the same records of a
\* raw record list: a record is skipped by save_to_rds if and only if it is
\* skipped by transform_data, so the number of staging rows built from a raw
\* list equals books_in_stock plus books_out_of_stock of the summary computed
\* from the same list.
C21_SameRecordsSkipped ==
    At("functions", "both") =>
      /\ Len(run.inserted) =
            run.summary.books_in_stock + run.summary.books_out_of_stock
      /\ \A i \in 1..Len(run.books) :
            parse_price(run.books[i].price).ok <=> Parses(run.books[i])

\* a price of a stray A-circumflex and 5.00: a staging row of 5.00, and a
\* summary that counts the record neither in stock nor out of stock
C21_Witness ==
    /\ At("functions", "both")
    /\ Len(run.books) = 1
    /\ run.books[1].price = <<ACirc, "5", ".", "0", "0">>
    /\ Len(run.inserted) = 1
    /\ run.inserted[1].price_gbp = 500
    /\ run.processed = <<>>
    /\ run.summary.total_books_raw = 1
    /\ run.summary.books_in_stock = 0
    /\ run.summary.books_out_of_stock = 0

----------------------------------------------------------------------------
(* Specifications *)

\* the connection manager alone, its functions called directly
InitDb ==
    /\ connection_pool = NoPool
    /\ secrets_cache = [n \in SecretNames |-> NoSecret]
    /\ DB_SECRET_NAME \in SecretNames \cup {""}
    /\ last = NoCall
    /\ clock = [date |-> 1, time |-> 0]
    /\ s3 = [k \in Keys |-> NoObject]
    /\ staging_books = <<>>
    /\ run = NoRun
    /\ batches = <<>>

NextDb ==
    \/ ExecuteQuery
    \/ TestConnection
    \/ GetSecret
    \/ CloseAllConnections

SpecDb == InitDb /\ [][NextDb]_vars

\* the two handlers
Init ==
    /\ connection_pool = NoPool
    /\ secrets_cache = [n \in SecretNames |-> NoSecret]
    /\ DB_SECRET_NAME = "books-etl/rds/credentials"
    /\ last = NoCall
    /\ clock = [date |-> 1, time |-> 0]
    /\ s3 = [k \in Keys |-> NoObject]
    /\ staging_books = <<>>
    /\ run = NoRun
    /\ batches = <<>>

Next ==
    \/ CollectorStart
    \/ CollectorConnectivity
    \/ CollectorScrape
    \/ CollectorRawPersist
    \/ CollectorStagingInsert
    \/ ReconcilerStart
    \/ ReconcilerConnectivity
    \/ ReconcilerReadRaw
    \/ ReconcilerTransform
    \/ ReconcilerPersist
    \/ ReconcilerResolveBatch
    \/ ReconcilerInvokeCdc
    \/ TickSecond
    \/ TickDay

Spec == Init /\ [][Next]_vars

\* the Collector alone, invoked again and again
NextCollector ==
    \/ CollectorStart
    \/ CollectorConnectivity
    \/ CollectorScrape
    \/ CollectorRawPersist
    \/ CollectorStagingInsert
    \/ TickSecond
    \/ TickDay

SpecCollector == Init /\ [][NextCollector]_vars

\* the Reconciler alone, in a fresh process, on what a Collector invocation of
\* date 1 left behind: nothing, the raw object only (its staging insert failed),
\* or the raw object and its staging rows
InitReconciler ==
    /\ connection_pool = NoPool
    /\ secrets_cache = [n \in SecretNames |-> NoSecret]
    /\ DB_SECRET_NAME = "books-etl/rds/credentials"
    /\ last = NoCall
    /\ clock = [date |-> 1, time |-> 0]
    /\ run = NoRun
    /\ \E books \in BookLists \ {<<>>}, left \in {"nothing", "raw", "raw and rows"} :
         LET id == generate_batch_id("extract", clock)
             raw == put_object([k \in Keys |-> NoObject], RawKey(clock.date), books, 1)
         IN  /\ batches = IF left = "nothing" THEN <<>> ELSE <<id>>
             /\ s3 = IF left = "nothing" THEN [k \in Keys |-> NoObject] ELSE raw
             /\ staging_books =
                   IF left = "raw and rows"
                   THEN inserted_rows(batch_data(books, clock.date, id).rows, clock, 1)
                   ELSE <<>>

NextReconciler ==
    \/ ReconcilerStart
    \/ ReconcilerConnectivity
    \/ ReconcilerReadRaw
    \/ ReconcilerTransform
    \/ ReconcilerPersist
    \/ ReconcilerResolveBatch
    \/ ReconcilerInvokeCdc
    \/ TickSecond
    \/ TickDay

SpecReconciler == InitReconciler /\ [][NextReconciler]_vars

\* transform_data and the loop of save_to_rds alone, on any raw record list
InitFunctions ==
    /\ connection_pool = NoPool
    /\ secrets_cache = [n \in SecretNames |-> NoSecret]
    /\ DB_SECRET_NAME = "books-etl/rds/credentials"
    /\ last = NoCall
    /\ clock = [date |-> 1, time |-> 0]
    /\ s3 = [k \in Keys |-> NoObject]
    /\ staging_books = <<>>
    /\ batches = <<>>
    /\ \E raw_data \in RawLists :
         run = [NoRun EXCEPT !.handler = "functions", !.pc = "called",
                             !.books = raw_data, !.run_date = clock.date,
                             !.batch_id = generate_batch_id("extract", clock)]

NextFunctions ==
    \/ TransformData
    \/ BatchData

SpecFunctions == InitFunctions /\ [][NextFunctions]_vars

====
